---- MODULE Spec2Model ----
(***************************************************************************)
(* Command resolution and dispatch pipeline of the drone LLM service:      *)
(* services/llm/main.py (validator, dispatch) and                          *)
(* services/llm/http_service.py (history queries, navigation resolver,     *)
(* heuristic inferencer, the text and audio request handlers).             *)
(*                                                                         *)
(* Python strings are sequences of one-character strings, so that          *)
(* lower(), strip(), split(), "in" and the f-string formatting are         *)
(* computed character by character.  Python dicts are tagged values        *)
(* [type |-> "dict", items |-> function], None is [type |-> "None"].       *)
(***************************************************************************)
EXTENDS Integers, Sequences, FiniteSets, TLC

(* ---------------- bounds of the model ---------------- *)
\* longest JSON array of the exhaustive part of the completions
MaxArr == 2
\* longest recent window the history service answers with
MaxWindow == 2
\* number of requests handled concurrently
MaxRequests == 2
\* longest tail of quote, letter and space characters of an utterance
MaxTail == 4

(* ---------------- string literals ---------------- *)
s_move_forward == <<"m", "o", "v", "e", "_", "f", "o", "r", "w", "a", "r", "d">>
s_move_backward == <<"m", "o", "v", "e", "_", "b", "a", "c", "k", "w", "a", "r", "d">>
s_move_left == <<"m", "o", "v", "e", "_", "l", "e", "f", "t">>
s_move_right == <<"m", "o", "v", "e", "_", "r", "i", "g", "h", "t">>
s_ascend == <<"a", "s", "c", "e", "n", "d">>
s_go_up == <<"g", "o", "_", "u", "p">>
s_descend == <<"d", "e", "s", "c", "e", "n", "d">>
s_go_down == <<"g", "o", "_", "d", "o", "w", "n">>
s_turn_left == <<"t", "u", "r", "n", "_", "l", "e", "f", "t">>
s_turn_right == <<"t", "u", "r", "n", "_", "r", "i", "g", "h", "t">>
s_stop == <<"s", "t", "o", "p">>
s_navigate_to_previous == <<"n", "a", "v", "i", "g", "a", "t", "e", "_", "t", "o", "_", "p", "r", "e", "v", "i", "o", "u", "s">>
s_navigate_to_object == <<"n", "a", "v", "i", "g", "a", "t", "e", "_", "t", "o", "_", "o", "b", "j", "e", "c", "t">>
s_navigate_to_position == <<"n", "a", "v", "i", "g", "a", "t", "e", "_", "t", "o", "_", "p", "o", "s", "i", "t", "i", "o", "n", ":">>
s_Person == <<"P", "e", "r", "s", "o", "n">>
s_Tree == <<"T", "r", "e", "e">>
s_human == <<"h", "u", "m", "a", "n">>
s_person == <<"p", "e", "r", "s", "o", "n">>
s_people == <<"p", "e", "o", "p", "l", "e">>
s_woman == <<"w", "o", "m", "a", "n">>
s_female == <<"f", "e", "m", "a", "l", "e">>
s_man == <<"m", "a", "n">>
s_male == <<"m", "a", "l", "e">>
s_boy == <<"b", "o", "y">>
s_girl == <<"g", "i", "r", "l">>
s_elder == <<"e", "l", "d", "e", "r">>
s_old == <<"o", "l", "d">>
s_tree == <<"t", "r", "e", "e">>
s_latest == <<"l", "a", "t", "e", "s", "t">>
s_last == <<"l", "a", "s", "t">>
s_previous == <<"p", "r", "e", "v", "i", "o", "u", "s">>
s_go_to == <<"g", "o", " ", "t", "o">>
s_navigate_to == <<"n", "a", "v", "i", "g", "a", "t", "e", " ", "t", "o">>
UpperToLower ==
    ("A" :> "a") @@ ("B" :> "b") @@ ("C" :> "c") @@ ("D" :> "d") @@ ("E" :> "e") @@ ("F" :> "f") @@ ("G" :> "g") @@ ("H" :> "h") @@ ("I" :> "i") @@ ("J" :> "j") @@ ("K" :> "k") @@ ("L" :> "l") @@ ("M" :> "m") @@ ("N" :> "n") @@ ("O" :> "o") @@ ("P" :> "p") @@ ("Q" :> "q") @@ ("R" :> "r") @@ ("S" :> "s") @@ ("T" :> "t") @@ ("U" :> "u") @@ ("V" :> "v") @@ ("W" :> "w") @@ ("X" :> "x") @@ ("Y" :> "y") @@ ("Z" :> "z")

(* ---------------- Python str operations ---------------- *)
\* str.lower() on one character
LowerChar(c) == IF c \in DOMAIN UpperToLower THEN UpperToLower[c] ELSE c

\* str.lower()
Lower(s) == [k \in 1..Len(s) |-> LowerChar(s[k])]

IsSpace(c) == c = " "

RECURSIVE LStrip(_)
LStrip(s) == IF s # <<>> /\ IsSpace(Head(s)) THEN LStrip(Tail(s)) ELSE s

RECURSIVE RStrip(_)
RStrip(s) ==
    IF s # <<>> /\ IsSpace(s[Len(s)]) THEN RStrip(SubSeq(s, 1, Len(s) - 1)) ELSE s

\* str.strip()
Strip(s) == RStrip(LStrip(s))

\* a in b, for two strings
Contains(b, a) ==
    \E k \in 0..(Len(b) - Len(a)) : SubSeq(b, k + 1, k + Len(a)) = a

\* str.split(): the maximal runs of non-space characters, in order
RECURSIVE SplitFrom(_, _, _)
SplitFrom(s, cur, acc) ==
    IF s = <<>>
    THEN IF cur = <<>> THEN acc ELSE Append(acc, cur)
    ELSE IF IsSpace(Head(s))
         THEN SplitFrom(Tail(s), <<>>, IF cur = <<>> THEN acc ELSE Append(acc, cur))
         ELSE SplitFrom(Tail(s), Append(cur, Head(s)), acc)

Split(s) == SplitFrom(s, <<>>, <<>>)

\* f" {s} "
Padded(s) == <<" ">> \o s \o <<" ">>

\* x in lst, for a list of strings
InList(x, lst) == \E k \in 1..Len(lst) : lst[k] = x

(* ---------------- number formatting ---------------- *)
Digits == <<"0", "1", "2", "3", "4", "5", "6", "7", "8", "9">>

RECURSIVE FmtNat(_)
FmtNat(n) ==
    IF n < 10 THEN <<Digits[n + 1]>>
    ELSE FmtNat(n \div 10) \o <<Digits[(n % 10) + 1]>>

\* str() of a Python int, as an f-string renders it
FmtInt(n) == IF n < 0 THEN <<"-">> \o FmtNat(0 - n) ELSE FmtNat(n)

\* str() of a Python float with an integral value, e.g. 7.0
FmtFloat(n) == FmtInt(n) \o <<".", "0">>

(* ---------------- Python values ---------------- *)
None == [type |-> "None"]

Dict(f) == [type |-> "dict", items |-> f]

EmptyDict == Dict([k \in {} |-> None])

IsDict(v) == v.type = "dict"

\* bool(v) for None and dicts
Truthy(v) == IsDict(v) /\ DOMAIN v.items # {}

\* d.get(k)
Get(d, k) == IF k \in DOMAIN d.items THEN d.items[k] ELSE None
(* ---------------- main.py: command validator ---------------- *)
valid_commands ==
    << s_move_forward, s_move_backward, s_move_left, s_move_right,
       s_ascend, s_go_up, s_descend, s_go_down,
       s_turn_left, s_turn_right, s_stop,
       s_navigate_to_previous, s_navigate_to_object >>

nav_commands == << s_navigate_to_previous, s_navigate_to_object >>

\* JSON values of the model's completion: a string, or anything else
\* (number, null, boolean, object), on which str.strip does not exist
JStr(s) == [t |-> "str", s |-> s]
JOther == [t |-> "other", s |-> <<>>]

\* a loop that keeps the argument of a navigation command in lower case
RECURSIVE ValidateLoop_LowerArgs(_, _, _)
ValidateLoop_LowerArgs(commands, i, validated_commands) ==
    IF i > Len(commands) THEN validated_commands
    ELSE LET cmd_lower == Lower(Strip(commands[i].s))
         IN IF \/ InList(cmd_lower, valid_commands)
               \/ /\ validated_commands # <<>>
                  /\ InList(validated_commands[Len(validated_commands)], nav_commands)
            THEN ValidateLoop_LowerArgs(commands, i + 1,
                                        Append(validated_commands, cmd_lower))
            ELSE ValidateLoop_LowerArgs(commands, i + 1, validated_commands)

\* the for loop over the parsed array (main.py 177-187)
RECURSIVE ValidateLoop(_, _, _)
ValidateLoop(commands, i, validated_commands) ==
    IF i > Len(commands) THEN validated_commands
    ELSE LET cmd == commands[i].s
             cmd_lower == Lower(Strip(cmd))
         IN IF InList(cmd_lower, valid_commands)
            THEN ValidateLoop(commands, i + 1, Append(validated_commands, cmd_lower))
            ELSE IF /\ i > 1
                    /\ validated_commands # <<>>
                    /\ InList(validated_commands[Len(validated_commands)], nav_commands)
                 THEN ValidateLoop(commands, i + 1, Append(validated_commands, Strip(cmd)))
                 ELSE ValidateLoop(commands, i + 1, validated_commands)

\* get_drone_instructions without the fallback of lines 191-193
get_drone_instructions_NoFallback(instructions) ==
    IF instructions.kind = "none" \/ instructions.kind = "empty"
    THEN << s_stop >>
    ELSE IF instructions.kind = "json"
    THEN LET commands == instructions.items
         IN IF \E k \in 1..Len(commands) : commands[k].t # "str"
            THEN << s_stop >>
            ELSE ValidateLoop(commands, 1, <<>>)
    ELSE LET command == Lower(Strip(instructions.text))
         IN IF InList(command, valid_commands) THEN << command >>
            ELSE << s_stop >>

\* get_drone_instructions, from the completion on (main.py 149-212).
\* instructions.kind: "none" (the provider call returned None), "empty"
\* (the empty string), "text" (json.loads raises JSONDecodeError on .text),
\* "json" (json.loads succeeds; .items is the parsed list, or the parsed
\* scalar wrapped into a one-element list as line 168 does), "unbuilt" (an
\* object of gaze_history could not be formatted into the prompt, so the
\* provider was never called)
get_drone_instructions(instructions) ==
    IF instructions.kind = "unbuilt"
    THEN << s_stop >>   \* the prompt could not be built (lines 110-121, 210-212)
    ELSE IF instructions.kind = "none" \/ instructions.kind = "empty"
    THEN << s_stop >>
    ELSE IF instructions.kind = "json"
    THEN LET commands == instructions.items
         IN IF \E k \in 1..Len(commands) : commands[k].t # "str"
            THEN << s_stop >>   \* AttributeError, caught at line 210
            ELSE LET validated_commands == ValidateLoop(commands, 1, <<>>)
                 IN IF validated_commands # <<>> THEN validated_commands
                    ELSE << s_stop >>
    ELSE LET command == Lower(Strip(instructions.text))
         IN IF InList(command, valid_commands) THEN << command >>
            ELSE << s_stop >>
(* ---------------- http_service.py: heuristic inferencer ---------------- *)
Some(v) == [type |-> "list", v |-> v]

Quote == "\""

\* re.search(r'"([^"]+)"', text): the leftmost quote that is followed by at
\* least one non-quote character and then a quote; the group is the text
\* between the two
QuoteStarts(text) ==
    { a \in 1..Len(text) :
        /\ text[a] = Quote
        /\ \E b \in (a + 2)..Len(text) :
              /\ text[b] = Quote
              /\ \A k \in (a + 1)..(b - 1) : text[k] # Quote }

Min(S) == CHOOSE m \in S : \A n \in S : m <= n

QuotedGroup(text) ==
    LET a == Min(QuoteStarts(text))
        b == Min({ k \in (a + 1)..Len(text) : text[k] = Quote })
    IN SubSeq(text, a + 1, b - 1)

\* synonyms_to_tag of infer_navigation_from_text, in insertion order
infer_synonyms_to_tag ==
    << <<s_tree, s_Tree>>, <<s_person, s_Person>>, <<s_human, s_Person>>,
       <<s_woman, s_Person>>, <<s_man, s_Person>>, <<s_male, s_Person>>,
       <<s_female, s_Person>> >>

recency_keywords == << s_latest, s_last, s_previous >>

\* the tag of the first synonym (in table order) that occurs as a word
InferTag(lower) ==
    LET hits == { k \in 1..Len(infer_synonyms_to_tag) :
                    Contains(Padded(lower), Padded(infer_synonyms_to_tag[k][1])) }
    IN IF hits = {} THEN None ELSE Some(infer_synonyms_to_tag[Min(hits)][2])

\* the inferencer with the recency and wayfinding rules tried before the
\* quoted name
infer_navigation_from_text_TypeFirst(user_input) ==
    IF user_input = <<>> THEN None
    ELSE LET text == Strip(user_input)
             lower == Lower(text)
             quoted == IF QuoteStarts(text) = {} THEN <<>>
                       ELSE Strip(QuotedGroup(text))
             tag == InferTag(lower)
             keyword == \E k \in 1..Len(recency_keywords) :
                           Contains(Padded(lower), Padded(recency_keywords[k]))
             wayfinding == Contains(lower, s_go_to) \/ Contains(lower, s_navigate_to)
         IN IF (keyword \/ wayfinding) /\ tag # None
            THEN Some(<< s_navigate_to_previous, tag.v >>)
            ELSE IF quoted # <<>> THEN Some(<< s_navigate_to_object, quoted >>)
                 ELSE None

infer_navigation_from_text(user_input) ==
    IF user_input = <<>> THEN None
    ELSE LET text == Strip(user_input)
             lower == Lower(text)
             quoted == IF QuoteStarts(text) = {} THEN <<>>
                       ELSE Strip(QuotedGroup(text))
             tag == InferTag(lower)
             keyword == \E k \in 1..Len(recency_keywords) :
                           Contains(Padded(lower), Padded(recency_keywords[k]))
             wayfinding == Contains(lower, s_go_to) \/ Contains(lower, s_navigate_to)
         IN IF quoted # <<>> THEN Some(<< s_navigate_to_object, quoted >>)
            ELSE IF (keyword \/ wayfinding) /\ tag # None
                 THEN Some(<< s_navigate_to_previous, tag.v >>)
                 ELSE None

(* ---------------- http_service.py: navigation resolver ---------------- *)
Position(x, y, z) == Dict([x |-> x, y |-> y, z |-> z])

\* _extract_position: the first of payload.position, payload.object.position,
\* payload.data.position that is a dict with the keys x, y and z
IsPosition(pos) == IsDict(pos) /\ {"x", "y", "z"} \subseteq DOMAIN pos.items

NestedPosition(gaze_payload, key) ==
    IF IsDict(Get(gaze_payload, key)) THEN Get(Get(gaze_payload, key), "position")
    ELSE None

extract_position(gaze_payload) ==
    IF ~IsDict(gaze_payload) THEN None
    ELSE LET candidates == << Get(gaze_payload, "position"),
                              NestedPosition(gaze_payload, "object"),
                              NestedPosition(gaze_payload, "data") >>
             ok == { k \in 1..3 : IsPosition(candidates[k]) }
         IN IF ok = {} THEN None ELSE candidates[Min(ok)]

offset_distance == 5

\* the offset applied to the wrong axis
calculate_navigation_position_OffsetZ(object_position) ==
    Position(object_position.items.x,
             object_position.items.y,
             object_position.items.z + offset_distance)

calculate_navigation_position(object_position) ==
    Position(object_position.items.x + offset_distance,
             object_position.items.y,
             object_position.items.z)

\* the f-string of lines 229 and 259; nav_pos['x'] is a float (x + 5.0), the
\* other five values are printed as the history service gave them
nav_command(nav_pos, object_pos) ==
    s_navigate_to_position
      \o FmtFloat(nav_pos.items.x) \o <<",">> \o FmtInt(nav_pos.items.y) \o <<",">>
      \o FmtInt(nav_pos.items.z) \o <<",">> \o FmtInt(object_pos.items.x) \o <<",">>
      \o FmtInt(object_pos.items.y) \o <<",">> \o FmtInt(object_pos.items.z)

\* synonyms_to_tag of process_navigation_command (every entry maps to Person)
resolver_synonyms == << s_human, s_person, s_people, s_woman, s_female, s_man,
                        s_male, s_boy, s_girl, s_elder, s_old >>

\* a table lookup that never finds a synonym
mapped_tag_Never(object_type) == None

\* mapped_tag: the tag of the first word of object_type found in the table
mapped_tag(object_type) ==
    LET words == Split(Lower(object_type))
    IN IF \E k \in 1..Len(words) : InList(words[k], resolver_synonyms)
       THEN Some(s_Person) ELSE None

\* str(obj.get(key, '')).lower() for the name and tag of a history object
StrField(obj, key) == IF key \in DOMAIN obj.items THEN Lower(obj.items[key]) ELSE <<>>

\* a score that gives nothing for an empty type text
score_IgnoresEmpty(obj, ot) ==
    LET name == StrField(obj, "name")
        tag == StrField(obj, "tag")
        tokens == Split(ot)
    IN IF ot = <<>> THEN 0
       ELSE (IF Contains(name, ot) THEN 3 ELSE 0)
            + (IF Contains(tag, ot) THEN 2 ELSE 0)
            + Cardinality({ k \in 1..Len(tokens) :
                              tokens[k] # <<>> /\ Contains(name, tokens[k]) })

\* score(obj) of the fuzzy stage (lines 195-207)
score(obj, ot) ==
    LET name == StrField(obj, "name")
        tag == StrField(obj, "tag")
        tokens == Split(ot)
    IN (IF Contains(name, ot) THEN 3 ELSE 0)
       + (IF Contains(tag, ot) THEN 2 ELSE 0)
       + Cardinality({ k \in 1..Len(tokens) :
                         tokens[k] # <<>> /\ Contains(name, tokens[k]) })

\* a scan that lets a later object of equal score replace the best one
RECURSIVE BestLoop_LastMax(_, _, _, _, _)
BestLoop_LastMax(recent, ot, k, best, best_score) ==
    IF k > Len(recent) THEN [best |-> best, best_score |-> best_score]
    ELSE LET sc == score(recent[k], ot)
         IN IF sc >= best_score THEN BestLoop_LastMax(recent, ot, k + 1, recent[k], sc)
            ELSE BestLoop_LastMax(recent, ot, k + 1, best, best_score)

\* the loop of lines 208-213: the first object with the strictly highest score
RECURSIVE BestLoop(_, _, _, _, _)
BestLoop(recent, ot, k, best, best_score) ==
    IF k > Len(recent) THEN [best |-> best, best_score |-> best_score]
    ELSE LET sc == score(recent[k], ot)
         IN IF sc > best_score THEN BestLoop(recent, ot, k + 1, recent[k], sc)
            ELSE BestLoop(recent, ot, k + 1, best, best_score)

fuzzy_threshold == 3

\* the fuzzy stage taking the best object whatever its score
fuzzy_match_NoThreshold(recent, object_type) ==
    IF recent = <<>> THEN None
    ELSE LET r == BestLoop(recent, Lower(object_type), 1, None, 0)
         IN IF Truthy(r.best) THEN r.best ELSE None

\* lines 192-216: gaze_data after the fuzzy stage (None when nothing is taken)
fuzzy_match(recent, object_type) ==
    IF recent = <<>> THEN None
    ELSE LET r == BestLoop(recent, Lower(object_type), 1, None, 0)
         IN IF Truthy(r.best) /\ r.best_score >= fuzzy_threshold THEN r.best
            ELSE None

\* an error message: f"{text}{arg}{tail}"
ErrMsg(text, arg, tail) == [text |-> text, arg |-> arg, tail |-> tail]

\* a navigation step that falls back to an estimated position at the origin
\* when the record has no position
NavStep_Estimated(gaze_data, processed_commands, errors, missing, notfound) ==
    IF Truthy(gaze_data)
    THEN LET found == extract_position(gaze_data)
             object_pos == IF found = None THEN Position(0, 0, 0) ELSE found
         IN [processed_commands |->
                 Append(processed_commands,
                        nav_command(calculate_navigation_position(object_pos),
                                    object_pos)),
             errors |-> errors]
    ELSE [processed_commands |-> processed_commands,
          errors |-> Append(errors, notfound)]

\* a navigation step that puts "stop" in the output for a target that was
\* not found
NavStep_StopOnMiss(gaze_data, processed_commands, errors, missing, notfound) ==
    IF Truthy(gaze_data)
    THEN LET object_pos == extract_position(gaze_data)
         IN IF object_pos = None
            THEN [processed_commands |-> processed_commands,
                  errors |-> Append(errors, missing)]
            ELSE [processed_commands |->
                      Append(processed_commands,
                             nav_command(calculate_navigation_position(object_pos),
                                         object_pos)),
                  errors |-> errors]
    ELSE [processed_commands |-> Append(processed_commands, s_stop),
          errors |-> Append(errors, notfound)]

\* lines 218-236 and 248-266: what one navigation step adds to
\* processed_commands and errors once gaze_data is settled
NavStep(gaze_data, processed_commands, errors, missing, notfound) ==
    IF Truthy(gaze_data)
    THEN LET object_pos == extract_position(gaze_data)
         IN IF object_pos = None
            THEN [processed_commands |-> processed_commands,
                  errors |-> Append(errors, missing)]
            ELSE [processed_commands |->
                      Append(processed_commands,
                             nav_command(calculate_navigation_position(object_pos),
                                         object_pos)),
                  errors |-> errors]
    ELSE [processed_commands |-> processed_commands,
          errors |-> Append(errors, notfound)]
(* ---------------- inputs of the model ---------------- *)
u_move_forward == <<"m", "o", "v", "e", " ", "f", "o", "r", "w", "a", "r", "d">>
u_quoted == <<"g", "o", " ", "t", "o", " ", "\"", "O", "a", "k", " ", "T", "r", "e", "e", " ", "3", "\"">>
u_last == <<"g", "o", " ", "t", "o", " ", "l", "a", "s", "t", " ", "m", "a", "n">>
u_cased == <<"f", "l", "y", " ", "t", "o", " ", "\"", "N", "a", "v", "i", "g", "a", "t", "e", "_", "T", "o", "_", "P", "r", "e", "v", "i", "o", "u", "s", "\"">>
a_old_man == <<"O", "l", "d", " ", "M", "a", "n">>
a_Stop == <<" ", "S", "t", "o", "p", " ">>
t_hello == <<"h", "e", "l", "l", "o">>
t_Move_Forward == <<" ", "M", "o", "v", "e", "_", "F", "o", "r", "w", "a", "r", "d", " ">>
n_Old_Man == <<"O", "l", "d", " ", "M", "a", "n">>
n_Man_Old == <<"M", "a", "n", " ", "O", "l", "d">>
n_Oak_Tree_3 == <<"O", "a", "k", " ", "T", "r", "e", "e", " ", "3">>

SeqUpTo(S, n) == {<<>>} \cup UNION { [1..k -> S] : k \in 1..n }

\* utterances (text commands and transcripts)
Utterances == { u_move_forward, u_quoted, u_last, u_cased }

\* elements of the JSON array of a completion
Elems == { JStr(s_move_forward), JStr(s_navigate_to_previous),
           JStr(s_navigate_to_object), JStr(a_Stop), JStr(a_old_man), JOther }

\* arrays that mix movement and navigation commands
MixedArrays ==
    { << JStr(s_move_forward), JStr(s_navigate_to_previous), JStr(a_old_man) >>,
      << JStr(s_navigate_to_object), JStr(a_old_man), JStr(s_move_forward) >>,
      << JStr(s_move_forward), JStr(s_ascend) >>,
      << JStr(s_navigate_to_previous), JStr(<<>>) >>,
      << JStr(s_navigate_to_previous), JStr(s_navigate_to_previous),
         JStr(a_old_man) >> }

Completion(kind, text, items) == [kind |-> kind, text |-> text, items |-> items]

\* completions of the model call
Completions ==
    { Completion("none", <<>>, <<>>), Completion("empty", <<>>, <<>>) }
      \cup { Completion("text", t, <<>>) : t \in { t_hello, t_Move_Forward } }
      \cup { Completion("json", <<>>, <<e>>) : e \in Elems }
      \cup { Completion("json", <<>>, a) : a \in SeqUpTo(Elems, MaxArr) }
      \cup { Completion("json", <<>>, a) : a \in MixedArrays }

\* records of the history service
R_top == Dict([name |-> n_Oak_Tree_3, tag |-> s_Tree, position |-> Position(2, 0, 5)])
R_object == Dict([position |-> Dict([x |-> 1]),
                  object |-> Dict([position |-> Position(0 - 3, 1, 0)])])
R_data == Dict([data |-> Dict([position |-> Position(0 - 3, 1, 0)])])
R_nopos == Dict([name |-> n_Old_Man, tag |-> s_Person])

\* answers of gaze_history and gaze_history_by_name: a transport failure, a
\* non-200 status, an unparsable body, {"found": false}, a JSON value that
\* is not an object, or an object
Answer(kind, data) == [kind |-> kind, data |-> data]

LookupAnswers ==
    { Answer(k, None) : k \in {"timeout", "status", "unparsable", "found_false", "non_dict"} }
      \cup { Answer("data", d) : d \in {R_top, R_object, R_data, R_nopos, EmptyDict} }

\* objects of the recent window
O_old_man == Dict([name |-> n_Old_Man, tag |-> s_Person, position |-> Position(2, 0, 5)])
O_man_old == Dict([name |-> n_Man_Old, tag |-> s_Person, position |-> Position(4, 2, 1)])
O_tree == Dict([name |-> n_Oak_Tree_3, tag |-> s_Tree, position |-> Position(0 - 3, 1, 0)])

RecentObjects == { O_old_man, O_man_old, O_tree }

\* the windows of gaze_history_recent: distinct objects, most recent first
Windows ==
    { w \in SeqUpTo(RecentObjects, MaxWindow) :
        \A a, b \in 1..Len(w) : a # b => w[a] # w[b] }

\* answers of gaze_history_recent: a failure, or "found" with the objects
RecentAnswers ==
    { [kind |-> "failed", objects |-> <<>>] }
      \cup { [kind |-> "objects", objects |-> w] : w \in Windows }

\* outcomes of the POST to the agent endpoint: 200, another status, a
\* connection error (nothing delivered), a timeout (delivered or not)
AgentOutcomes ==
    { [result |-> "ok", delivered |-> TRUE],
      [result |-> "status", delivered |-> TRUE],
      [result |-> "connection", delivered |-> FALSE],
      [result |-> "timeout", delivered |-> TRUE],
      [result |-> "timeout", delivered |-> FALSE] }

(* ---------------- state ---------------- *)
VARIABLES
    pc,                  \* position of the request handler
    path,                \* "text" (process_command) or "audio" (process_audio_command)
    body,                \* the request body: [has_command, command]
    user_input,          \* user_input / transcript
    completion,          \* the completion the model call returned
    validated,           \* the list core_get_drone_instructions returned
    commands,            \* the handler's commands
    i,                   \* loop index of process_navigation_command (1-based)
    processed_commands,  \* local of process_navigation_command
    errors,              \* local of process_navigation_command
    gaze_data,           \* local of process_navigation_command, after the last query
    recent,              \* local of process_navigation_command: the last window
    queries,             \* history queries issued by this request, in order
    histFailed,          \* a history query of this request failed
    unityCalls,          \* the lists handed to send_to_unity
    posts,               \* the payloads POSTed to the agent endpoint
    agentLog,            \* the commands the agent endpoint received, in order
    agentAcked,          \* the commands the agent endpoint answered 200 for
    response,            \* the HTTP response of the handler
    dispatch,            \* concurrent handlers: the send_to_unity call of each
    endpoint             \* the commands the agent endpoint received from them

\* the state of the concurrent dispatches
conc_vars == << dispatch, endpoint >>

\* the state of the one request followed step by step
request_vars == << pc, path, body, user_input, completion, validated, commands, i,
                   processed_commands, errors, gaze_data, recent, queries,
                   histFailed, unityCalls, posts, agentLog, agentAcked, response >>

vars == << request_vars, conc_vars >>

NoResponse == [code |-> 0, status |-> "", error |-> ErrMsg("", <<>>, ""),
               not_found |-> FALSE, has_commands |-> FALSE, commands |-> <<>>]

\* jsonify({'error': ...}), code
ErrorResponse(code, error) ==
    [code |-> code, status |-> "", error |-> error,
     not_found |-> FALSE, has_commands |-> FALSE, commands |-> <<>>]

\* jsonify({'status': 'not_found', 'error': errors[0], 'not_found': True}), 404
NotFoundResponse(error) ==
    [code |-> 404, status |-> "not_found", error |-> error,
     not_found |-> TRUE, has_commands |-> FALSE, commands |-> <<>>]

\* jsonify({'status': ..., 'commands': commands}), 200
CommandsResponse(status, cmds) ==
    [code |-> 200, status |-> status, error |-> ErrMsg("", <<>>, ""),
     not_found |-> FALSE, has_commands |-> TRUE, commands |-> cmds]

Query(q, arg) == [q |-> q, arg |-> arg]

\* the handler threads of the concurrent dispatches
Requests == 1..MaxRequests

\* a handler that has not called send_to_unity yet
IdleDispatch == [pc |-> "idle", commands |-> <<>>, todo |-> <<>>,
                 outcome |-> [result |-> "", delivered |-> FALSE],
                 result |-> FALSE]

Init ==
    /\ pc = "request"
    /\ path \in {"text", "audio"}
    /\ body \in { [has_command |-> FALSE, command |-> <<>>] }
                 \cup { [has_command |-> TRUE, command |-> u] : u \in Utterances }
    /\ path = "audio" => ~body.has_command
    /\ user_input = <<>>
    /\ completion = Completion("pending", <<>>, <<>>)
    /\ validated = <<>>
    /\ commands = <<>>
    /\ i = 1
    /\ processed_commands = <<>>
    /\ errors = <<>>
    /\ gaze_data = None
    /\ recent = <<>>
    /\ queries = <<>>
    /\ histFailed = FALSE
    /\ unityCalls = <<>>
    /\ posts = <<>>
    /\ agentLog = <<>>
    /\ agentAcked = <<>>
    /\ response = NoResponse
    /\ dispatch = [r \in Requests |-> IdleDispatch]
    /\ endpoint = <<>>

\* the handler returns resp
Respond(resp) == pc' = "done" /\ response' = resp
(* ---------------- the request handlers ---------------- *)
\* process_command, lines 489-495
ReceiveText ==
    /\ pc = "request" /\ path = "text"
    /\ IF ~body.has_command
       THEN /\ Respond(ErrorResponse(400, ErrMsg("Missing command in request", <<>>, "")))
            /\ UNCHANGED user_input
       ELSE /\ user_input' = body.command
            /\ pc' = "context"
            /\ UNCHANGED response
    /\ UNCHANGED << conc_vars, path, body, completion, validated, commands, i, processed_commands,
                    errors, gaze_data, recent, queries, histFailed, unityCalls, posts,
                    agentLog, agentAcked >>

\* what the upload and the whisper run of process_audio_command can give
TranscribeOutcomes ==
    { [kind |-> k, transcript |-> <<>>] :
        k \in {"no_file", "empty_filename", "whisper_failed", "timeout", "no_output"} }
      \cup { [kind |-> "ok", transcript |-> t] : t \in Utterances \cup {<<>>} }

\* process_audio_command, lines 555-608 and 659-684
Transcribe ==
    /\ pc = "request" /\ path = "audio"
    /\ \E o \in TranscribeOutcomes :
         IF o.kind = "ok" /\ o.transcript # <<>>
         THEN /\ user_input' = o.transcript
              /\ pc' = "context"
              /\ UNCHANGED response
         ELSE /\ Respond(CASE o.kind = "no_file" ->
                              ErrorResponse(400, ErrMsg("No audio file provided", <<>>, ""))
                         [] o.kind = "empty_filename" ->
                              ErrorResponse(400, ErrMsg("Empty audio file", <<>>, ""))
                         [] o.kind = "whisper_failed" ->
                              ErrorResponse(500, ErrMsg("Whisper processing failed", <<>>, ""))
                         [] o.kind = "timeout" ->
                              ErrorResponse(408, ErrMsg("Audio processing timeout - model may be downloading", <<>>, ""))
                         [] o.kind = "no_output" ->
                              ErrorResponse(500, ErrMsg("Whisper output file not found", <<>>, ""))
                         [] OTHER ->
                              ErrorResponse(400, ErrMsg("No speech detected", <<>>, "")))
              /\ UNCHANGED user_input
    /\ UNCHANGED << conc_vars, path, body, completion, validated, commands, i, processed_commands,
                    errors, gaze_data, recent, queries, histFailed, unityCalls, posts,
                    agentLog, agentAcked >>

recent_count == 30

HasNav(cmds) == \E k \in 1..Len(cmds) : InList(cmds[k], nav_commands)

\* the inferencer consulted whatever the model produced
consults_inference_Always(cmds) == TRUE

\* the condition of lines 517 / 619
consults_inference(cmds) == ~HasNav(cmds)

\* a fallback that keeps the model's commands in front of the inferred ones
WithInference_Merge(cmds, text) ==
    IF consults_inference(cmds)
    THEN LET inferred == infer_navigation_from_text(text)
         IN IF inferred # None THEN cmds \o inferred.v ELSE cmds
    ELSE cmds

\* lines 516-520 / 618-622: the heuristic fallback
WithInference(cmds, text) ==
    IF consults_inference(cmds)
    THEN LET inferred == infer_navigation_from_text(text)
         IN IF inferred # None THEN inferred.v ELSE cmds
    ELSE cmds

\* lines 510-531 / 612-633: the validator's list for a completion, the
\* fallback and the choice between resolution and dispatch
ModelStep(c) ==
    LET v == get_drone_instructions(c)
        cmds == WithInference(v, user_input)
    IN /\ completion' = c
       /\ validated' = v
       /\ commands' = cmds
       /\ IF cmds = <<>>
          THEN Respond(ErrorResponse(500, ErrMsg("Failed to generate valid commands", <<>>, "")))
          ELSE /\ pc' = IF HasNav(cmds) THEN "resolve" ELSE "send"
               /\ UNCHANGED response
       /\ i' = 1 /\ processed_commands' = <<>> /\ errors' = <<>>

\* answers of gaze_history_recent to the handler: objects that can be
\* formatted, a failure (the list is empty), a body that is not a JSON
\* object, objects of which one has a position that is not an object of
\* numbers
ContextAnswers == {"objects", "failed", "non_dict", "malformed"}

\* gaze_history = get_recent_gaze_history(30) in the handler of path p.  A
\* body that is not a JSON object raises in both handlers.  The text handler
\* prints every object (lines 499-508), which raises on a malformed one; the
\* audio handler (line 610) passes the list on, and get_drone_instructions
\* then fails to build its prompt and returns ["stop"] without a model call.
FetchContextOf(p) ==
    /\ pc = "context"
    /\ queries' = Append(queries, Query("recent", FmtNat(recent_count)))
    /\ \E a \in ContextAnswers :
         IF a = "non_dict" \/ (a = "malformed" /\ p = "text")
         THEN /\ Respond(ErrorResponse(500, ErrMsg("exception", <<>>, "")))
              /\ UNCHANGED << completion, validated, commands, i,
                              processed_commands, errors >>
         ELSE IF a = "malformed"
         THEN ModelStep(Completion("unbuilt", <<>>, <<>>))
         ELSE /\ pc' = "llm"
              /\ UNCHANGED << response, completion, validated, commands, i,
                              processed_commands, errors >>
    /\ UNCHANGED << conc_vars, path, body, user_input, gaze_data, recent, histFailed,
                    unityCalls, posts, agentLog, agentAcked >>

FetchContext == FetchContextOf(path)

\* the model call of get_drone_instructions and what the handler does with
\* its list
CallModel ==
    /\ pc = "llm"
    /\ \E c \in Completions : ModelStep(c)
    /\ UNCHANGED << conc_vars, path, body, user_input, gaze_data, recent, queries, histFailed,
                    unityCalls, posts, agentLog, agentAcked >>
(* ---------------- process_navigation_command, step by step ---------------- *)
\* query_gaze_history / query_gaze_history_by_name: what the caller gets
query_result(answer) == IF answer.kind = "data" THEN answer.data ELSE None

IsFailure(answer) == answer.kind \in {"timeout", "status", "unparsable"}

\* an exception that leaves the handler without a response
Fault_Escapes == pc' = "done" /\ response' = NoResponse

\* the exception of line 39 / 68 reaches the handler's except clause
Fault == Respond(ErrorResponse(500, ErrMsg("exception", <<>>, "")))

HasArg == i + 1 <= Len(commands)

\* the end of one iteration on a navigation command
FinishStep(data, missing, notfound) ==
    LET r == NavStep(data, processed_commands, errors, missing, notfound)
    IN /\ gaze_data' = data
       /\ processed_commands' = r.processed_commands
       /\ errors' = r.errors
       /\ i' = i + 1
       /\ pc' = "resolve"
       /\ UNCHANGED response

PrevMissing(object_type) ==
    ErrMsg("Gaze data for previous ", object_type, " missing 'position'")
PrevNotFound(object_type) ==
    ErrMsg("Could not find previous ", object_type, " in gaze history")
ObjMissing(object_name) ==
    ErrMsg("Gaze data for object '", object_name, "' missing 'position'")
ObjNotFound(object_name) ==
    ErrMsg("Could not find object '", object_name, "' in gaze history")

\* a pass-through that puts the command in front of the output
pass_through_InFront(processed, cmd) ==
    IF InList(Lower(cmd), valid_commands) THEN << cmd >> \o processed
    ELSE processed

\* lines 272-273: a valid command is appended as it is, anything else dropped
pass_through(processed, cmd) ==
    IF InList(Lower(cmd), valid_commands) THEN Append(processed, cmd)
    ELSE processed

\* lines 270-273: a command that is not a navigation command
ResolvePlain ==
    /\ pc = "resolve" /\ i <= Len(commands)
    /\ ~InList(commands[i], nav_commands)
    /\ processed_commands' = pass_through(processed_commands, commands[i])
    /\ i' = i + 1
    /\ UNCHANGED << pc, conc_vars, path, body, user_input, completion, validated, commands, errors,
                    gaze_data, recent, queries, histFailed, unityCalls, posts,
                    agentLog, agentAcked, response >>

\* a navigation command with nothing after it recorded as an error
ResolveMissingArg_Error ==
    /\ pc = "resolve" /\ i <= Len(commands)
    /\ InList(commands[i], nav_commands) /\ ~HasArg
    /\ errors' = Append(errors, ErrMsg("Navigation command missing object", <<>>, ""))
    /\ i' = i + 1
    /\ UNCHANGED << pc, conc_vars, path, body, user_input, completion, validated, commands,
                    processed_commands, gaze_data, recent, queries, histFailed,
                    unityCalls, posts, agentLog, agentAcked, response >>

\* lines 237-239 and 267-269: a navigation command with nothing after it
ResolveMissingArg ==
    /\ pc = "resolve" /\ i <= Len(commands)
    /\ InList(commands[i], nav_commands) /\ ~HasArg
    /\ processed_commands' = Append(processed_commands, s_stop)
    /\ i' = i + 1
    /\ UNCHANGED << pc, conc_vars, path, body, user_input, completion, validated, commands, errors,
                    gaze_data, recent, queries, histFailed, unityCalls, posts,
                    agentLog, agentAcked, response >>

\* lines 156-165: navigate_to_previous, the exact tag lookup
QueryTag ==
    /\ pc = "resolve" /\ i <= Len(commands)
    /\ commands[i] = s_navigate_to_previous /\ HasArg
    /\ LET object_type == Lower(commands[i + 1])
       IN /\ queries' = Append(queries, Query("tag", object_type))
          /\ \E answer \in LookupAnswers :
               /\ histFailed' = (histFailed \/ IsFailure(answer))
               /\ IF answer.kind = "non_dict"
                  THEN Fault /\ UNCHANGED << i, processed_commands, errors, gaze_data >>
                  ELSE IF Truthy(query_result(answer))
                  THEN FinishStep(query_result(answer), PrevMissing(object_type),
                                  PrevNotFound(object_type))
                  ELSE /\ pc' = IF mapped_tag(object_type) # None
                                THEN "q_synonym" ELSE "q_recent"
                       /\ gaze_data' = None
                       /\ UNCHANGED << i, processed_commands, errors, response >>
    /\ UNCHANGED << conc_vars, path, body, user_input, completion, validated, commands, recent,
                    unityCalls, posts, agentLog, agentAcked >>

\* lines 186-188: the lookup with the mapped tag
QuerySynonym ==
    /\ pc = "q_synonym"
    /\ LET object_type == Lower(commands[i + 1])
       IN /\ queries' = Append(queries, Query("tag", mapped_tag(object_type).v))
          /\ \E answer \in LookupAnswers :
               /\ histFailed' = (histFailed \/ IsFailure(answer))
               /\ IF answer.kind = "non_dict"
                  THEN Fault /\ UNCHANGED << i, processed_commands, errors, gaze_data >>
                  ELSE IF Truthy(query_result(answer))
                  THEN FinishStep(query_result(answer), PrevMissing(object_type),
                                  PrevNotFound(object_type))
                  ELSE /\ pc' = "q_recent"
                       /\ gaze_data' = None
                       /\ UNCHANGED << i, processed_commands, errors, response >>
    /\ UNCHANGED << conc_vars, path, body, user_input, completion, validated, commands, recent,
                    unityCalls, posts, agentLog, agentAcked >>

\* a window that is kept from the previous scan when the query fails
recent_result_Cached(answer) == IF answer.kind = "objects" THEN answer.objects ELSE recent

\* get_recent_gaze_history as called by the resolver
recent_result(answer) == IF answer.kind = "objects" THEN answer.objects ELSE <<>>

\* lines 190-236: the fuzzy stage and the end of the step
QueryRecent ==
    /\ pc = "q_recent"
    /\ LET object_type == Lower(commands[i + 1])
       IN /\ queries' = Append(queries, Query("recent", FmtNat(recent_count)))
          /\ \E answer \in RecentAnswers :
               /\ histFailed' = (histFailed \/ answer.kind = "failed")
               /\ recent' = recent_result(answer)
               /\ FinishStep(fuzzy_match(recent_result(answer), object_type),
                             PrevMissing(object_type), PrevNotFound(object_type))
    /\ UNCHANGED << conc_vars, path, body, user_input, completion, validated, commands,
                    unityCalls, posts, agentLog, agentAcked >>

\* lines 240-266: navigate_to_object
QueryName ==
    /\ pc = "resolve" /\ i <= Len(commands)
    /\ commands[i] = s_navigate_to_object /\ HasArg
    /\ LET object_name == commands[i + 1]
       IN /\ queries' = Append(queries, Query("name", object_name))
          /\ \E answer \in LookupAnswers :
               /\ histFailed' = (histFailed \/ IsFailure(answer))
               /\ IF answer.kind = "non_dict"
                  THEN Fault /\ UNCHANGED << i, processed_commands, errors, gaze_data >>
                  ELSE FinishStep(query_result(answer), ObjMissing(object_name),
                                  ObjNotFound(object_name))
    /\ UNCHANGED << conc_vars, path, body, user_input, completion, validated, commands, recent,
                    unityCalls, posts, agentLog, agentAcked >>

\* the not-found test with the wrong sense for errors
is_not_found_NoErrors(errs, processed) == errs = <<>> /\ processed = <<>>

\* lines 533 / 635: errors and not processed_commands
is_not_found(errs, processed) == errs # <<>> /\ processed = <<>>

\* line 275 and the caller's lines 531-535 / 633-643
ResolveReturn ==
    /\ pc = "resolve" /\ i > Len(commands)
    /\ IF is_not_found(errors, processed_commands)
       THEN /\ Respond(NotFoundResponse(errors[1]))
            /\ UNCHANGED commands
       ELSE /\ commands' = processed_commands
            /\ pc' = "send"
            /\ UNCHANGED response
    /\ UNCHANGED << conc_vars, path, body, user_input, completion, validated, i,
                    processed_commands, errors, gaze_data, recent, queries,
                    histFailed, unityCalls, posts, agentLog, agentAcked >>

(* ---------------- main.py: send_to_unity ---------------- *)
\* send_to_unity treating a timeout as a success
send_to_unity_TimeoutOk(outcome) == outcome.result \in {"ok", "timeout"}

\* the return value of send_to_unity for an outcome of the POST
send_to_unity(outcome) == outcome.result = "ok"

\* a body that lists the commands last to first
payload_Reversed(cmds) == [k \in 1..Len(cmds) |-> cmds[Len(cmds) + 1 - k]]

\* the JSON body {"commands": commands} of the one POST
payload(cmds) == cmds

\* lines 539-542: the text handler's response after send_to_unity
text_result(success, cmds) ==
    IF success THEN CommandsResponse("success", cmds)
    ELSE ErrorResponse(500, ErrMsg("Failed to send to Unity", <<>>, ""))

\* lines 647-652: the audio handler's response after send_to_unity
audio_result(success, cmds) ==
    CommandsResponse(IF success THEN "success" ELSE "failed", cmds)

\* lines 537-542 / 645-652: dispatch and the final response
SendToUnity ==
    /\ pc = "send"
    /\ unityCalls' = Append(unityCalls, commands)
    /\ posts' = Append(posts, payload(commands))
    /\ \E outcome \in AgentOutcomes :
         LET success == send_to_unity(outcome)
         IN /\ agentLog' = IF outcome.delivered THEN agentLog \o payload(commands)
                           ELSE agentLog
            /\ agentAcked' = IF outcome.result = "ok"
                             THEN agentAcked \o payload(commands) ELSE agentAcked
            /\ Respond(IF path = "text" THEN text_result(success, commands)
                       ELSE audio_result(success, commands))
    /\ UNCHANGED << conc_vars, path, body, user_input, completion, validated, commands, i,
                    processed_commands, errors, gaze_data, recent, queries, histFailed >>

Next ==
    \/ ReceiveText
    \/ Transcribe
    \/ FetchContext
    \/ CallModel
    \/ ResolvePlain
    \/ ResolveMissingArg
    \/ QueryTag
    \/ QuerySynonym
    \/ QueryRecent
    \/ QueryName
    \/ ResolveReturn
    \/ SendToUnity

Spec == Init /\ [][Next]_vars

TypeOK ==
    /\ pc \in {"request", "context", "llm", "resolve", "q_synonym", "q_recent", "send", "done"}
    /\ path \in {"text", "audio"}
    /\ i >= 1
    /\ pc \in {"resolve", "q_synonym", "q_recent"} => i <= Len(commands) + 1
(* ---------------- concurrent requests: dispatch ---------------- *)
\* resolved lists the handlers hold when they reach send_to_unity
DispatchLists ==
    { << s_stop >>,
      << s_move_forward, s_ascend >>,
      << s_move_forward,
         nav_command(calculate_navigation_position(Position(2, 0, 5)),
                     Position(2, 0, 5)) >> }

\* a dispatch that issues one POST per command
post_bodies_PerCommand(cmds) == [k \in 1..Len(cmds) |-> << cmds[k] >>]

\* the POSTs of one send_to_unity call: one, carrying the whole list
post_bodies(cmds) == << payload(cmds) >>

\* the commands of a body as the endpoint receives them from request r
Tagged(r, cmds) == [k \in 1..Len(cmds) |-> [req |-> r, cmd |-> cmds[k]]]

\* handler thread r calls send_to_unity(commands)
ConcCall(r) ==
    /\ dispatch[r].pc = "idle"
    /\ \E cmds \in DispatchLists :
         dispatch' = [dispatch EXCEPT ![r] =
                        [IdleDispatch EXCEPT !.pc = "posting", !.commands = cmds,
                                             !.todo = post_bodies(cmds)]]
    /\ UNCHANGED << endpoint, request_vars >>

\* requests.post of thread r: the body reaches the endpoint as a whole, or
\* not at all
ConcPost(r) ==
    /\ dispatch[r].pc = "posting"
    /\ \E outcome \in AgentOutcomes :
         /\ endpoint' = IF outcome.delivered
                        THEN endpoint \o Tagged(r, Head(dispatch[r].todo))
                        ELSE endpoint
         /\ dispatch' = [dispatch EXCEPT ![r].pc = "awaiting",
                                         ![r].outcome = outcome]
    /\ UNCHANGED request_vars

\* the answer (or the exception) reaches thread r; send_to_unity returns
ConcReturn(r) ==
    /\ dispatch[r].pc = "awaiting"
    /\ LET ok == send_to_unity(dispatch[r].outcome)
       IN dispatch' =
            IF ok /\ Len(dispatch[r].todo) > 1
            THEN [dispatch EXCEPT ![r].pc = "posting",
                                  ![r].todo = Tail(dispatch[r].todo)]
            ELSE [dispatch EXCEPT ![r].pc = "returned", ![r].todo = <<>>,
                                  ![r].result = ok]
    /\ UNCHANGED << endpoint, request_vars >>

ConcInit == Init /\ path = "text" /\ ~body.has_command

ConcNext == \E r \in Requests : ConcCall(r) \/ ConcPost(r) \/ ConcReturn(r)

\* the dispatches of MaxRequests handler threads of the threaded server
ConcSpec == ConcInit /\ [][ConcNext]_vars

(* ---------------- the inferencer on its own ---------------- *)
u_go_to_last_man_ == <<"g", "o", " ", "t", "o", " ", "l", "a", "s", "t", " ", "m", "a", "n", " ">>

u_last_elder == <<"g", "o", " ", "t", "o", " ", "l", "a", "s", "t", " ", "e", "l", "d", "e", "r">>
u_the_girl == <<"n", "a", "v", "i", "g", "a", "t", "e", " ", "t", "o", " ", "t", "h", "e", " ", "g", "i", "r", "l">>

\* utterances made of an optional wayfinding phrase and a tail of quotes,
\* letters and spaces, and utterances that name a person by other words
InferUtterances ==
    Utterances \cup { u_last_elder, u_the_girl }
      \cup { p \o t : p \in { <<>>, u_go_to_last_man_ },
                      t \in SeqUpTo({ Quote, "a", " " }, MaxTail) }

InferInit ==
    /\ pc = "infer"
    /\ user_input \in InferUtterances
    /\ path = "text"
    /\ body = [has_command |-> TRUE, command |-> user_input]
    /\ completion = Completion("pending", <<>>, <<>>)
    /\ validated = <<>> /\ commands = <<>> /\ i = 1
    /\ processed_commands = <<>> /\ errors = <<>>
    /\ gaze_data = None /\ recent = <<>> /\ queries = <<>>
    /\ histFailed = FALSE
    /\ unityCalls = <<>> /\ posts = <<>> /\ agentLog = <<>> /\ agentAcked = <<>>
    /\ response = NoResponse
    /\ dispatch = [r \in Requests |-> IdleDispatch]
    /\ endpoint = <<>>

\* inferred = infer_navigation_from_text(user_input); commands = inferred
\* when it is not None
InferStep ==
    /\ pc = "infer"
    /\ LET inferred == infer_navigation_from_text(user_input)
       IN commands' = IF inferred # None THEN inferred.v ELSE <<>>
    /\ pc' = "inferred"
    /\ UNCHANGED << conc_vars, path, body, user_input, completion, validated, i,
                    processed_commands, errors, gaze_data, recent, queries,
                    histFailed, unityCalls, posts, agentLog, agentAcked, response >>

InferNext == InferStep

InferSpec == InferInit /\ [][InferNext]_vars

(* ======================================================================= *)
(* Properties                                                              *)
(* ======================================================================= *)
StartsWith(s, prefix) ==
    Len(s) >= Len(prefix) /\ SubSeq(s, 1, Len(prefix)) = prefix

\* str.split(sep) for a one-character separator: empty fields are kept
RECURSIVE SplitOnFrom(_, _, _, _)
SplitOnFrom(s, sep, cur, acc) ==
    IF s = <<>> THEN Append(acc, cur)
    ELSE IF Head(s) = sep THEN SplitOnFrom(Tail(s), sep, <<>>, Append(acc, cur))
         ELSE SplitOnFrom(Tail(s), sep, Append(cur, Head(s)), acc)

SplitOn(s, sep) == SplitOnFrom(s, sep, <<>>, <<>>)

IsDigit(c) == \E d \in 1..10 : Digits[d] = c

AllDigits(f) == f # <<>> /\ \A k \in 1..Len(f) : IsDigit(f[k])

\* a decimal number: -?digits(.digits)?
IsNumeric(f) ==
    LET u == IF f # <<>> /\ Head(f) = "-" THEN Tail(f) ELSE f
        parts == SplitOn(u, ".")
    IN /\ Len(parts) \in {1, 2}
       /\ \A k \in 1..Len(parts) : AllDigits(parts[k])

DigitValue(c) == (CHOOSE d \in 1..10 : Digits[d] = c) - 1

RECURSIVE NatValue(_)
NatValue(f) ==
    IF f = <<>> THEN 0
    ELSE NatValue(SubSeq(f, 1, Len(f) - 1)) * 10 + DigitValue(f[Len(f)])

\* the value of a numeric field whose fraction, if any, is zero
NumValue(f) ==
    LET neg == f # <<>> /\ Head(f) = "-"
        u == IF neg THEN Tail(f) ELSE f
        whole == NatValue(SplitOn(u, ".")[1])
    IN IF neg THEN 0 - whole ELSE whole

ZeroFraction(f) ==
    LET parts == SplitOn(f, ".")
    IN Len(parts) = 2 => \A k \in 1..Len(parts[2]) : parts[2][k] = "0"

\* the comma-separated fields after the prefix of a navigation string
NavFields(e) ==
    SplitOn(SubSeq(e, Len(s_navigate_to_position) + 1, Len(e)), ",")

\* a resolved 'navigate_to_position:...' string with six numeric fields
IsResolvedNav(e) ==
    /\ StartsWith(e, s_navigate_to_position)
    /\ Len(NavFields(e)) = 6
    /\ \A k \in 1..6 : IsNumeric(NavFields(e)[k])

\* an exact lower-case vocabulary token other than the two parametric ones
IsPlainCanonical(e) == InList(e, valid_commands) /\ ~InList(e, nav_commands)

Last(q) == q[Len(q)]

(* ---- C1 ---- *)
\* C1: every element of every list handed to send_to_unity is a
\* non-parametric canonical command or a resolved navigate_to_position
\* string; never a raw parametric command in any letter case, never an
\* unresolved argument token.
C1_DispatchedElementsCanonicalOrResolved ==
    \A c \in 1..Len(unityCalls) : \A k \in 1..Len(unityCalls[c]) :
        IsPlainCanonical(unityCalls[c][k]) \/ IsResolvedNav(unityCalls[c][k])

(* ---- C2 ---- *)
\* no token of the completion is recognised by the vocabulary
NoRecognisedToken(c) ==
    CASE c.kind \in {"none", "empty"} -> TRUE
      [] c.kind = "text" -> ~InList(Lower(Strip(c.text)), valid_commands)
      [] c.kind = "json" ->
           \A k \in 1..Len(c.items) :
               c.items[k].t = "str" => ~InList(Lower(Strip(c.items[k].s)), valid_commands)
      [] OTHER -> FALSE

ModelAnswered == completion.kind # "pending"

\* C2: for every model output get_drone_instructions returns a non-empty
\* list, and when no token is recognised the list is exactly ["stop"].
C2_ValidatorNeverEmptyStopFallback ==
    ModelAnswered =>
        /\ validated # <<>>
        /\ NoRecognisedToken(completion) => validated = << s_stop >>

\* a JSON array of two unrecognised strings was validated to ["stop"]
C2_Witness ==
    /\ completion.kind = "json" /\ Len(completion.items) = 2
    /\ \A k \in 1..2 : completion.items[k].t = "str"
    /\ NoRecognisedToken(completion)
    /\ validated = << s_stop >>
(* ---- C3 ---- *)
\* C3: whenever a navigation command of the request could not be resolved
\* (also in a list with movement commands or resolvable navigation
\* commands), the caller receives not_found and nothing is sent to the agent.
C3_UnresolvedTargetAlwaysNotFound ==
    errors # <<>> =>
        /\ pc # "send"
        /\ unityCalls = <<>> /\ agentLog = <<>>
        /\ (pc = "done" /\ response.error.text # "exception")
              => (response.status = "not_found" /\ response.not_found)

(* ---- C4 ---- *)
\* C4: when process_navigation_command returns an empty command list for
\* a non-empty input list the request ends with status 'not_found',
\* not_found = true, and send_to_unity is never called, so the agent receives
\* nothing; for ["navigate_to_previous", type] with no exact, synonym or fuzzy
\* match the resolver returns ([], one error).
C4_EmptyResolutionIsNotFound ==
    /\ [][(pc = "resolve" /\ i > Len(commands) /\ processed_commands = <<>>)
            => /\ pc' = "done"
               /\ response'.status = "not_found" /\ response'.not_found
               /\ response'.code = 404
               /\ unityCalls' = <<>>]_vars
    /\ [](response.status = "not_found"
            => pc = "done" /\ unityCalls = <<>> /\ posts = <<>> /\ agentLog = <<>>)
    /\ []((/\ pc = "resolve" /\ i > Len(commands) /\ Len(commands) = 2
           /\ commands[1] = s_navigate_to_previous
           /\ ~InList(Lower(commands[2]), valid_commands)
           /\ ~Truthy(gaze_data))
            => /\ processed_commands = <<>>
               /\ errors = << PrevNotFound(Lower(commands[2])) >>)

\* ["navigate_to_previous", "Person"]: the three stages were queried after
\* the context query, none matched, the request ended with not_found
C4_Witness ==
    /\ pc = "done" /\ response.status = "not_found"
    /\ commands = << s_navigate_to_previous, s_Person >>
    /\ Len(queries) = 4 /\ Len(errors) = 1
    /\ unityCalls = <<>>

(* ---- C5 ---- *)
\* position k of a list holds the argument of the command before it
RECURSIVE IsArgPos(_, _)
IsArgPos(cmds, k) ==
    k > 1 /\ InList(cmds[k - 1], nav_commands) /\ ~IsArgPos(cmds, k - 1)

\* the validator as the claim describes it: the element after a kept
\* navigation command is kept verbatim, without a vocabulary check
RECURSIVE ArgumentAwareValidate(_, _, _)
ArgumentAwareValidate(items, k, acc) ==
    IF k > Len(items) THEN acc
    ELSE IF acc # <<>> /\ InList(Last(acc), nav_commands) /\ IsArgPos(acc, Len(acc) + 1)
         THEN ArgumentAwareValidate(items, k + 1, Append(acc, Strip(items[k].s)))
         ELSE IF InList(Lower(Strip(items[k].s)), valid_commands)
              THEN ArgumentAwareValidate(items, k + 1, Append(acc, Lower(Strip(items[k].s))))
              ELSE ArgumentAwareValidate(items, k + 1, acc)

\* C5: the element following navigate_to_previous / navigate_to_object is
\* only that command's argument: the validator does not check it against
\* the vocabulary, and the resolver's output has no entry for it (each
\* command position yields at most one command or error, an argument
\* position yields nothing), also when the argument is a vocabulary word.
C5_ArgumentNeverValidatedNeverStandalone ==
    /\ (/\ completion.kind = "json"
        /\ \A k \in 1..Len(completion.items) : completion.items[k].t = "str"
        /\ ArgumentAwareValidate(completion.items, 1, <<>>) # <<>>)
          => validated = ArgumentAwareValidate(completion.items, 1, <<>>)
    /\ (pc = "resolve" /\ i > Len(commands))
          => Len(processed_commands) + Len(errors)
               <= Cardinality({ k \in 1..Len(commands) : ~IsArgPos(commands, k) })

(* ---- C6 ---- *)
\* an iteration on a navigation command that has an argument ends
NavStepDone == i' = i + 1 /\ queries' # queries

C7_TargetIsObjectPlusFiveOnX ==
    [][(NavStepDone /\ processed_commands' # processed_commands) =>
         LET p == extract_position(gaze_data').items
             f == NavFields(Last(processed_commands'))
         IN /\ Len(f) = 6
            /\ \A k \in 1..6 : IsNumeric(f[k]) /\ ZeroFraction(f[k])
            /\ << NumValue(f[1]), NumValue(f[2]), NumValue(f[3]),
                  NumValue(f[4]), NumValue(f[5]), NumValue(f[6]) >>
                 = << p.x + 5, p.y, p.z, p.x, p.y, p.z >>]_vars

\* object (2,0,5) resolved to target (7,0,5), object (2,0,5)
C7_Witness ==
    /\ extract_position(gaze_data) = Position(2, 0, 5)
    /\ processed_commands # <<>>
    /\ Last(processed_commands) =
         s_navigate_to_position
           \o <<"7", ".", "0", ",", "0", ",", "5", ",", "2", ",", "0", ",", "5">>

(* ---- C8 ---- *)
\* C8: after the fuzzy stage the object used has a score of at least 3; when
\* every object of the window scores below 3 nothing is used and the step
\* records the not-found error.
C8_FuzzyBelowThreeNeverUsed ==
    [][pc = "q_recent" =>
         LET ot == Lower(commands[i + 1])
         IN /\ Truthy(gaze_data') => score(gaze_data', ot) >= 3
            /\ (\A k \in 1..Len(recent') : score(recent'[k], ot) < 3)
                 => /\ gaze_data' = None
                    /\ processed_commands' = processed_commands
                    /\ errors' = Append(errors, PrevNotFound(ot))]_vars

\* the fuzzy stage ran on a window whose best score is 1 or 2 and the step
\* ended with the not-found error
C8_Witness ==
    /\ pc = "resolve" /\ i > 1 /\ Len(queries) >= 3
    /\ Last(queries).q = "recent"
    /\ \E k \in 1..Len(recent) : score(recent[k], Lower(commands[i])) \in {1, 2}
    /\ \A k \in 1..Len(recent) : score(recent[k], Lower(commands[i])) < 3
    /\ gaze_data = None
    /\ errors # <<>> /\ Last(errors) = PrevNotFound(Lower(commands[i]))

(* ---- C9 ---- *)
RECURSIVE Flatten(_)
Flatten(ss) == IF ss = <<>> THEN <<>> ELSE Head(ss) \o Flatten(Tail(ss))

IsPrefix(a, b) == Len(a) <= Len(b) /\ SubSeq(b, 1, Len(a)) = a

\* C9: the commands are submitted one at a time in list order: every
\* submission carries one command, the submissions are a prefix of the list,
\* and after a submission that is not acknowledged nothing more is submitted
\* (the submitted commands are the acknowledged ones plus at most one).
C9_OneSubmissionPerCommandStopAtFailure ==
    unityCalls # <<>> =>
        /\ \A k \in 1..Len(posts) : Len(posts[k]) = 1
        /\ IsPrefix(Flatten(posts), unityCalls[1])
        /\ Len(Flatten(posts)) <= Len(agentAcked) + 1

(* ---- C10 ---- *)
\* C10: the agent receives the commands of the request in the order of the
\* resolved list, and success is reported only if the agent acknowledged
\* every command of the list.
C10_OrderKeptSuccessOnlyIfAllAcked ==
    (pc = "done" /\ unityCalls # <<>>) =>
        /\ Len(unityCalls) = 1 /\ unityCalls[1] = commands
        /\ i > 1 => commands = processed_commands
        /\ agentLog \in { <<>>, commands }
        /\ response.status = "success"
             => agentAcked = commands /\ agentLog = commands

\* a list of a movement command and a resolved navigation command was
\* delivered in order and acknowledged
C10_Witness ==
    /\ pc = "done" /\ response.status = "success"
    /\ Len(commands) = 2
    /\ commands[1] = s_move_forward /\ IsResolvedNav(commands[2])
    /\ agentLog = commands /\ agentAcked = commands

(* ---- C11 ---- *)
\* C11: with requests dispatched concurrently, the sequence of commands the
\* agent endpoint receives never has a command of one request between two
\* commands of another request.
C11_NoInterleavedDispatch ==
    \A a, b, c \in 1..Len(endpoint) :
        (a < b /\ b < c /\ endpoint[a].req = endpoint[c].req)
            => endpoint[b].req = endpoint[a].req

\* two dispatches of two commands each are in flight at the same time and
\* the endpoint has received both
C11_Witness ==
    /\ dispatch[1].pc = "awaiting" /\ dispatch[2].pc = "awaiting"
    /\ Len(dispatch[1].commands) = 2 /\ Len(dispatch[2].commands) = 2
    /\ Len(endpoint) = 4
    /\ endpoint[1].req = 2 /\ endpoint[4].req = 1

(* ---- C12 ---- *)
\* C12: the inferencer is used only when the validated list has neither
\* navigate_to_previous nor navigate_to_object; when the model produced a
\* navigation intent the list that goes on to process_navigation_command is
\* the validated list itself, whatever the utterance contains.
C12_InferenceNeverOverridesModelIntent ==
    [][pc = "llm" =>
         /\ HasNav(validated') => commands' = validated'
         /\ commands' # validated'
              => /\ ~HasNav(validated')
                 /\ infer_navigation_from_text(user_input) # None
                 /\ commands' = infer_navigation_from_text(user_input).v]_vars

\* the utterance alone would give another navigation command, the model
\* gave one, and the resolver starts on the model's list
C12_Witness ==
    /\ pc = "resolve" /\ i = 1
    /\ HasNav(validated)
    /\ infer_navigation_from_text(user_input) # None
    /\ infer_navigation_from_text(user_input).v # validated
    /\ commands = validated

(* ---- C13 ---- *)
QuotePositions(text) == { k \in 1..Len(text) : text[k] = Quote }

\* the text between the first two double quotes of an utterance
FirstQuoted(text) ==
    LET q1 == Min(QuotePositions(text))
        q2 == Min(QuotePositions(text) \ {q1})
    IN SubSeq(text, q1 + 1, q2 - 1)

\* pairs of double quotes that enclose at least one character and no quote
Enclosing(text) ==
    { p \in (1..Len(text)) \X (1..Len(text)) :
        /\ p[1] + 1 < p[2]
        /\ text[p[1]] = Quote /\ text[p[2]] = Quote
        /\ \A k \in (p[1] + 1)..(p[2] - 1) : text[k] # Quote }

LeftmostEnclosed(text) ==
    LET p == CHOOSE p \in Enclosing(text) : \A q \in Enclosing(text) : p[1] <= q[1]
    IN SubSeq(text, p[1] + 1, p[2] - 1)

Blank(t) == \A k \in 1..Len(t) : t[k] = " "

\* C13 as stated: for every utterance containing a double-quoted substring
\* the inferencer returns ["navigate_to_object", name] with name the first
\* quoted substring, before the recency and wayfinding rules.
C13_QuotedNameAlwaysWins ==
    (pc = "inferred" /\ Cardinality(QuotePositions(user_input)) >= 2)
        => commands = << s_navigate_to_object, FirstQuoted(user_input) >>

\* C13 amended: when the leftmost pair of double quotes enclosing at least
\* one character encloses a text that is not blank, the inferencer returns
\* ["navigate_to_object", that text without surrounding spaces], before the
\* recency and wayfinding rules; without such a pair, or when the text is
\* blank, the quoted rule gives nothing and only the other rules apply.
C13_NonBlankQuotedNameWins ==
    pc = "inferred" =>
        LET text == Strip(user_input)
        IN IF Enclosing(text) # {} /\ ~Blank(LeftmostEnclosed(text))
           THEN commands = << s_navigate_to_object, Strip(LeftmostEnclosed(text)) >>
           ELSE commands = <<>> \/ commands[1] = s_navigate_to_previous

\* 'go to last man " a"': the quoted name wins over the recency rule
C13_Witness ==
    /\ pc = "inferred"
    /\ user_input = u_go_to_last_man_ \o << Quote, " ", "a", Quote >>
    /\ commands = << s_navigate_to_object, << "a" >> >>

(* ---- C14 ---- *)
\* C14: when a query of the object-history service failed during resolution
\* (timeout, connection error, non-200 status, unparsable body) the request
\* ends with a failure, never with the not_found outcome of an explicit
\* 'not found' answer and never with a success.
C14_HistoryFailureIsNotNotFound ==
    (pc = "done" /\ histFailed)
        => /\ response.status # "not_found" /\ ~response.not_found
           /\ response.status # "success"
           /\ response.code >= 500

(* ---- C15 ---- *)
\* C15: when the model call failed or returned no completion (the provider
\* call gave None) the request ends with a failure, never with a success,
\* and no command list of the request is handed to send_to_unity.
C15_ModelFailureIsFailure ==
    completion.kind = "none"
        => /\ unityCalls = <<>> /\ agentLog = <<>>
           /\ pc # "send"
           /\ pc = "done" => (response.status # "success" /\ response.code >= 500)

(* ---- C16 ---- *)
\* the outcome a response indicates
Outcome(resp) ==
    IF resp.status = "success" THEN "success"
    ELSE IF resp.status = "not_found" /\ resp.not_found THEN "not_found"
    ELSE IF resp.error.text # "" \/ resp.status = "failed" THEN "error"
    ELSE "none"

\* what is left of the handler: the phase, and inside the resolver the
\* commands and cascade stages still to go
Phase ==
    CASE pc = "request" -> 5
      [] pc = "context" -> 4
      [] pc = "llm" -> 3
      [] pc \in {"resolve", "q_synonym", "q_recent"} -> 2
      [] pc = "send" -> 1
      [] OTHER -> 0

Remaining ==
    IF pc \in {"resolve", "q_synonym", "q_recent"}
    THEN 3 * (Len(commands) + 1 - i)
           + (CASE pc = "resolve" -> 2 [] pc = "q_synonym" -> 1 [] OTHER -> 0)
    ELSE 0

\* C16: every text or audio request, whatever the model, the history
\* service and the agent answer, ends with exactly one response, whose
\* outcome is success, not_found or error.  The handler ends: every step
\* brings it closer to its return (the phase advances, or the resolver has
\* less left), and short of the return a next step always exists, so no
\* failure of a step leaves the handler without a response.
C16_AlwaysOneStructuredResponse ==
    /\ [][\/ Phase' < Phase
          \/ Phase' = Phase /\ Remaining' < Remaining]_vars
    /\ [](Remaining >= 0)
    /\ [](pc # "done" => ENABLED Next)
    /\ [](pc = "done" <=> response # NoResponse)
    /\ [](pc = "done" => Outcome(response) \in {"success", "not_found", "error"})
    /\ [][response # NoResponse => response' = response]_vars

\* a lookup answered with a JSON value that is not an object: the exception
\* raised in the resolver ended as a 500 error response
C16_Witness ==
    /\ pc = "done" /\ Len(queries) >= 2
    /\ response.code = 500 /\ response.error.text = "exception"
    /\ Outcome(response) = "error"

(* ---- C17 ---- *)
\* a JSON array of exact vocabulary tokens other than the navigation ones
PlainArray(c) ==
    /\ c.kind = "json" /\ c.items # <<>>
    /\ \A k \in 1..Len(c.items) :
          c.items[k].t = "str" /\ IsPlainCanonical(c.items[k].s)

\* C17: on a success response of process_command the 'commands' field is
\* exactly the list that was submitted to the agent; when the model output
\* is a JSON array of non-navigation vocabulary tokens and nothing is
\* inferred from the utterance, that list is the model's array, in order.
C17_SuccessCommandsAreTheSubmittedList ==
    (pc = "done" /\ path = "text" /\ response.status = "success") =>
        /\ response.has_commands
        /\ unityCalls = << response.commands >>
        /\ posts = << response.commands >>
        /\ agentLog = response.commands
        /\ (PlainArray(completion) /\ infer_navigation_from_text(user_input) = None)
             => response.commands = [k \in 1..Len(completion.items) |-> completion.items[k].s]

\* '["move_forward","ascend"]' for "move forward" ended with success and
\* commands ["move_forward","ascend"]
C17_Witness ==
    /\ pc = "done" /\ path = "text" /\ response.status = "success"
    /\ user_input = u_move_forward
    /\ completion.kind = "json"
    /\ completion.items = << JStr(s_move_forward), JStr(s_ascend) >>
    /\ response.commands = << s_move_forward, s_ascend >>

(* ---- C18 ---- *)
Resolving == pc \in {"resolve", "q_synonym", "q_recent"}

\* C18: the resolver goes through the input list from first to last and its
\* output only grows at the end, by at most one element per input position;
\* a non-navigation canonical command is appended unchanged when its
\* position is reached, and any other appended element is the one produced
\* for the navigation command at the current position.  So the output is
\* never reordered with respect to the input.
C18_ResolverKeepsOrder ==
    [][Resolving =>
         /\ i' \in {i, i + 1}
         /\ \/ processed_commands' = processed_commands
            \/ /\ Len(processed_commands') = Len(processed_commands) + 1
               /\ IsPrefix(processed_commands, processed_commands')
               /\ i' = i + 1
               /\ \/ Last(processed_commands') = commands[i]
                  \/ /\ InList(commands[i], nav_commands)
                     /\ \/ IsResolvedNav(Last(processed_commands'))
                        \/ Last(processed_commands') = s_stop
         /\ (pc = "resolve" /\ i <= Len(commands) /\ IsPlainCanonical(commands[i]))
              => processed_commands' = Append(processed_commands, commands[i])]_vars

\* ["navigate_to_object", "Old Man", "move_forward"] resolved to the
\* navigation string followed by move_forward
C18_Witness ==
    /\ pc = "resolve" /\ i > Len(commands)
    /\ commands = << s_navigate_to_object, a_old_man, s_move_forward >>
    /\ Len(processed_commands) = 2
    /\ IsResolvedNav(processed_commands[1])
    /\ processed_commands[2] = s_move_forward

(* ---- C19 ---- *)
\* C19: in every list get_drone_instructions returns, each
\* navigate_to_previous / navigate_to_object element is immediately followed
\* by one argument token that is not a vocabulary command, and the element
\* after the argument, if any, is a command again.
C19_NavAlwaysFollowedByOneArgument ==
    ModelAnswered =>
        \A k \in 1..Len(validated) :
            InList(validated[k], nav_commands) =>
                /\ k + 1 <= Len(validated)
                /\ ~InList(validated[k + 1], valid_commands)
                /\ k + 2 <= Len(validated) => InList(validated[k + 2], valid_commands)

(* ---- C20 ---- *)
\* a word of the type text is in the resolver's synonym table
HasSynonym(ot) == \E k \in 1..Len(Split(ot)) : InList(Split(ot)[k], resolver_synonyms)

\* the step ended the iteration on the navigation command with an object
StageSucceeded ==
    /\ Truthy(gaze_data')
    /\ pc' = "resolve" /\ i' = i + 1
    /\ \/ /\ errors' = errors
          /\ processed_commands' =
               Append(processed_commands,
                      nav_command(calculate_navigation_position(extract_position(gaze_data')),
                                  extract_position(gaze_data')))
       \/ /\ extract_position(gaze_data') = None
          /\ processed_commands' = processed_commands
          /\ Len(errors') = Len(errors) + 1

\* the step went on to a later stage without touching the output
StageNotFound ==
    /\ ~Truthy(gaze_data')
    /\ i' = i /\ processed_commands' = processed_commands /\ errors' = errors

\* C20: for navigate_to_previous(typeText) the stages run in the order exact
\* tag lookup, lookup of the synonym-mapped tag, fuzzy scan of the 30 most
\* recent objects; a later stage is queried only after every earlier stage
\* returned nothing, and the resolved command is built from the object of
\* the first stage that returns one.
C20_CascadeInOrderFirstSuccessWins ==
    [][/\ (pc = "resolve" /\ i + 1 <= Len(commands)
             /\ commands[i] = s_navigate_to_previous /\ pc' # "done")
          => LET ot == Lower(commands[i + 1])
             IN /\ queries' = Append(queries, Query("tag", ot))
                /\ \/ StageSucceeded
                   \/ /\ StageNotFound
                      /\ pc' = IF HasSynonym(ot) THEN "q_synonym" ELSE "q_recent"
       /\ (pc = "q_synonym" /\ pc' # "done")
          => /\ ~Truthy(gaze_data)
             /\ Last(queries) = Query("tag", Lower(commands[i + 1]))
             /\ queries' = Append(queries, Query("tag", s_Person))
             /\ StageSucceeded \/ (StageNotFound /\ pc' = "q_recent")
       /\ pc = "q_recent"
          => /\ ~Truthy(gaze_data)
             /\ Last(queries).q = "tag"
             /\ queries' = Append(queries, Query("recent", << "3", "0" >>))
             /\ pc' = "resolve" /\ i' = i + 1
             /\ Truthy(gaze_data') => (StageSucceeded /\ InList(gaze_data', recent'))]_vars

\* the tag lookup and the lookup of the mapped tag returned nothing and the
\* fuzzy scan gave the object of the resolved command
C20_Witness ==
    /\ pc = "resolve" /\ i = 2
    /\ commands = << s_navigate_to_previous, a_old_man >>
    /\ Len(queries) = 4
    /\ queries[2] = Query("tag", Lower(a_old_man))
    /\ queries[3] = Query("tag", s_Person)
    /\ queries[4].q = "recent"
    /\ gaze_data = O_old_man
    /\ Len(processed_commands) = 1 /\ IsResolvedNav(processed_commands[1])

(* ---- C21 ---- *)
\* the score the fuzzy stage is said to give an object for a type text
FuzzyScore(obj, typeText) ==
    LET name == StrField(obj, "name")
        tag == StrField(obj, "tag")
        tokens == Split(typeText)
    IN (IF Contains(name, typeText) THEN 3 ELSE 0)
       + (IF Contains(tag, typeText) THEN 2 ELSE 0)
       + Cardinality({ k \in DOMAIN tokens : Contains(name, tokens[k]) })

\* the highest FuzzyScore in a non-empty window
MaxFuzzyScore(w, typeText) ==
    CHOOSE m \in { FuzzyScore(w[k], typeText) : k \in DOMAIN w } :
        \A k \in DOMAIN w : FuzzyScore(w[k], typeText) <= m

\* the earliest position of the window with the highest score
EarliestBest(w, typeText) ==
    CHOOSE k \in DOMAIN w :
        /\ FuzzyScore(w[k], typeText) = MaxFuzzyScore(w, typeText)
        /\ \A j \in 1..(k - 1) : FuzzyScore(w[j], typeText) < MaxFuzzyScore(w, typeText)

\* C21: in the fuzzy stage every object of the window is scored 3 for the
\* type text being a substring of its name, plus 2 for a substring of its
\* tag, plus 1 per whitespace token of the type text found in its name, all
\* lower-cased; whenever the stage takes an object it is the object with the
\* highest score, and among objects of equal highest score the earliest one
\* of the window.
C21_FuzzyTakesEarliestHighestScore ==
    [][(pc = "q_recent" /\ Truthy(gaze_data'))
         => LET ot == Lower(commands[i + 1])
            IN /\ recent' # <<>>
               /\ gaze_data' = recent'[EarliestBest(recent', ot)]
               /\ \A k \in DOMAIN recent' :
                    score(recent'[k], ot) = FuzzyScore(recent'[k], ot)]_vars

\* two different objects of the window have the same highest score and the
\* first one was taken
C21_Witness ==
    /\ pc = "resolve" /\ i = 2
    /\ commands[1] = s_navigate_to_previous
    /\ Last(queries).q = "recent"
    /\ Len(recent) = 2 /\ recent[1] # recent[2]
    /\ FuzzyScore(recent[1], Lower(commands[2])) = FuzzyScore(recent[2], Lower(commands[2]))
    /\ gaze_data = recent[1]

(* ---- C22 ---- *)
\* how many elements of a list are non-navigation vocabulary commands
PlainCount(q) == Cardinality({ k \in DOMAIN q : IsPlainCanonical(Lower(q[k])) })

\* C22: when the target of a navigation command that has an argument is not
\* found (navigate_to_object: the lookup by name found nothing;
\* navigate_to_previous: the tag lookup, the synonym lookup if any and the
\* fuzzy scan all found nothing), the step appends exactly one error that
\* names the argument and appends no command, and the loop goes on: at the
\* end of the loop every position was visited and every non-navigation
\* command of the list is in the output.
C22_NotFoundStepOneErrorNoCommand ==
    /\ [][(Resolving /\ NavStepDone /\ ~Truthy(gaze_data'))
            => /\ processed_commands' = processed_commands
               /\ pc' = "resolve"
               /\ IF commands[i] = s_navigate_to_object
                  THEN /\ pc = "resolve"
                       /\ Last(queries') = Query("name", commands[i + 1])
                       /\ errors' = Append(errors, ObjNotFound(commands[i + 1]))
                  ELSE /\ commands[i] = s_navigate_to_previous
                       /\ pc = "q_recent"
                       /\ Last(queries').q = "recent"
                       /\ errors' = Append(errors, PrevNotFound(Lower(commands[i + 1])))]_vars
    /\ [][(Resolving /\ ~Resolving')
            => (i > Len(commands) \/ response' = ErrorResponse(500, ErrMsg("exception", <<>>, "")))]_vars
    /\ []((pc = "resolve" /\ i <= Len(commands) + 1)
            => PlainCount(processed_commands) >= PlainCount(SubSeq(commands, 1, i - 1)))

\* ["navigate_to_object", "Old Man", "move_forward"]: the object is not
\* found, one error names it, and move_forward is still in the output
C22_Witness ==
    /\ pc = "resolve" /\ i = 4
    /\ commands = << s_navigate_to_object, a_old_man, s_move_forward >>
    /\ errors = << ObjNotFound(a_old_man) >>
    /\ processed_commands = << s_move_forward >>

(* ---- C23 ---- *)
\* the words the synonym tables know, and the tag of each
KnownSynonyms ==
    { resolver_synonyms[k] : k \in DOMAIN resolver_synonyms }
      \cup { infer_synonyms_to_tag[k][1] : k \in DOMAIN infer_synonyms_to_tag }

TagOf(word) == IF word = s_tree THEN s_Tree ELSE s_Person

\* C23: for an utterance without a double quote that has a recency keyword
\* (latest, last, previous) or a wayfinding phrase (go to, navigate to) and
\* a word of the synonym-to-tag table (human, woman, man, elder, ...),
\* infer_navigation_from_text returns ["navigate_to_previous", tag] with the
\* tag of such a word; for any other utterance without a quote it returns
\* None.
C23_KeywordWithSynonymGivesTag ==
    (pc = "inferred" /\ ~InList(Quote, user_input))
      => LET lower == Lower(Strip(user_input))
             words == Split(lower)
             trigger == \/ \E k \in DOMAIN words : InList(words[k], recency_keywords)
                        \/ Contains(lower, s_go_to)
                        \/ Contains(lower, s_navigate_to)
             hits == { k \in DOMAIN words : words[k] \in KnownSynonyms }
         IN IF trigger /\ hits # {}
            THEN \E k \in hits : commands = << s_navigate_to_previous, TagOf(words[k]) >>
            ELSE commands = <<>>

(* ---- C24 ---- *)
\* the completion parsed as JSON and every element is a string
PlainStrings(c) ==
    c.kind = "json" /\ \A k \in DOMAIN c.items : c.items[k].t = "str"

\* what is kept of the first k tokens: a token that is a vocabulary word
\* once trimmed and lower-cased is kept in that form; any other token is
\* kept, trimmed only, when the token kept before it is a navigation command
RECURSIVE Kept(_, _)
Kept(tokens, k) ==
    IF k = 0 THEN <<>>
    ELSE LET before == Kept(tokens, k - 1)
             normal == Lower(Strip(tokens[k]))
         IN IF InList(normal, valid_commands) THEN Append(before, normal)
            ELSE IF before # <<>> /\ InList(Last(before), nav_commands)
                 THEN Append(before, Strip(tokens[k]))
                 ELSE before

\* the list returned for the tokens: what is kept, or ["stop"] for nothing
Returned(tokens) ==
    IF Kept(tokens, Len(tokens)) = <<>> THEN << s_stop >>
    ELSE Kept(tokens, Len(tokens))

\* C24: for a completion that is a JSON array of strings, the list of
\* get_drone_instructions holds, in input order, every token that is a
\* vocabulary word after trimming and lower-casing, in that normal form,
\* and every other token whose previously kept token is navigate_to_previous
\* or navigate_to_object, trimmed with its case kept, and nothing else (the
\* list is ["stop"] when nothing is kept); a JSON scalar gives what the
\* array of that one element gives, and a text that is not JSON gives what
\* the array holding that text as its one token gives.
C24_ValidatorKeepsVocabularyAndArguments ==
    /\ (ModelAnswered /\ PlainStrings(completion))
         => validated = Returned([k \in DOMAIN completion.items |-> completion.items[k].s])
    /\ (ModelAnswered /\ completion.kind = "text")
         => validated = Returned(<< completion.text >>)

\* ["move_forward", "navigate_to_previous", "Old Man"]: the argument is
\* kept with its capitals after the two vocabulary words
C24_Witness ==
    /\ ModelAnswered
    /\ completion.items = << JStr(s_move_forward), JStr(s_navigate_to_previous),
                             JStr(a_old_man) >>
    /\ validated = << s_move_forward, s_navigate_to_previous, a_old_man >>

(* ---- C25 ---- *)
\* C25: an element of the parsed array that is not recognised is dropped
\* on its own: every string element of the array that is a vocabulary word
\* after trimming and lower-casing is in the list of get_drone_instructions,
\* whatever the other elements are (unknown strings, empty strings, numbers,
\* null, objects).
C25_CanonicalElementsSurviveUnknownOnes ==
    (ModelAnswered /\ completion.kind = "json")
      => \A k \in DOMAIN completion.items :
           (/\ completion.items[k].t = "str"
            /\ InList(Lower(Strip(completion.items[k].s)), valid_commands))
             => InList(Lower(Strip(completion.items[k].s)), validated)

(* ---- C26 ---- *)
\* C26: the answers of the history service being independent from one query
\* to the next (objects are appended between the queries of one resolution),
\* every navigation step ends with exactly one of: one resolved command, one
\* error.  The position in a resolved command is the position of the object
\* that the stage which succeeded got from its own query: nothing is
\* carried from one stage or one scan to the next, and no position is
\* estimated.
C26_StepUsesTheAnswerOfItsOwnQuery ==
    /\ [][(Resolving /\ NavStepDone)
            => /\ \/ /\ processed_commands' = processed_commands
                     /\ Len(errors') = Len(errors) + 1
                     /\ IsPrefix(errors, errors')
                  \/ /\ Len(processed_commands') = Len(processed_commands) + 1
                     /\ IsPrefix(processed_commands, processed_commands')
                     /\ errors' = errors
               /\ processed_commands' # processed_commands
                    => LET pos == extract_position(gaze_data')
                       IN /\ Truthy(gaze_data') /\ IsPosition(pos)
                          /\ Last(processed_commands') =
                               nav_command(calculate_navigation_position(pos), pos)
                          /\ pc = "q_recent" => InList(gaze_data', recent')
               /\ (pc = "q_recent" /\ ~histFailed /\ histFailed')
                    => (recent' = <<>> /\ ~Truthy(gaze_data'))]_vars
    /\ [](pc \in {"q_synonym", "q_recent"} => ~Truthy(gaze_data))

\* the lookup of the tag Person found nothing and the scan that followed saw
\* a window whose second object has the tag Person: the command is built
\* from that object
C26_Witness ==
    /\ pc = "resolve" /\ i = 2
    /\ commands = << s_navigate_to_previous, a_old_man >>
    /\ Len(queries) = 4 /\ queries[3] = Query("tag", s_Person)
    /\ recent = << O_tree, O_old_man >>
    /\ gaze_data = recent[2]
    /\ processed_commands = << nav_command(Position(7, 0, 5), Position(2, 0, 5)) >>
    /\ errors = <<>>

(* ---- C27 ---- *)
\* C27: when the validated list has no navigation command and
\* infer_navigation_from_text returns a list, the command list of the
\* request becomes that two-element list and nothing of the validated list
\* is kept: what is dispatched afterwards is made of the inferred list
\* alone.  When the inferencer returns None the validated list is kept as
\* it is.
C27_InferredListReplacesModelCommands ==
    /\ [][(pc = "llm" /\ ~HasNav(validated'))
            => LET inferred == infer_navigation_from_text(user_input)
               IN IF inferred # None
                  THEN /\ commands' = inferred.v
                       /\ Len(commands') = 2
                       /\ InList(commands'[1], nav_commands)
                  ELSE commands' = validated']_vars
    /\ []((/\ ModelAnswered /\ ~HasNav(validated)
           /\ infer_navigation_from_text(user_input) # None
           /\ unityCalls # <<>>)
            => \A k \in DOMAIN unityCalls[1] :
                 \/ IsResolvedNav(unityCalls[1][k])
                 \/ unityCalls[1][k] = infer_navigation_from_text(user_input).v[2])

\* the model answered ["move_forward", "ascend"] to 'go to "Oak Tree 3"':
\* only the resolved navigation command is dispatched
C27_Witness ==
    /\ pc = "done"
    /\ user_input = u_quoted
    /\ validated = << s_move_forward, s_ascend >>
    /\ Len(unityCalls) = 1 /\ Len(unityCalls[1]) = 1
    /\ IsResolvedNav(unityCalls[1][1])

(* ---- C28 ---- *)
\* C28: a navigate_to_previous or navigate_to_object that is the last
\* element of the list is answered by process_navigation_command with the
\* command "stop" at its place and with no error and no query; the list
\* that comes out is therefore not empty, the request goes on to the
\* dispatch, and a request whose list ends with such a command is never
\* answered not_found.
C28_NavWithoutArgumentBecomesStop ==
    /\ [][(/\ pc = "resolve" /\ i = Len(commands)
           /\ InList(commands[i], nav_commands))
            => /\ processed_commands' = Append(processed_commands, s_stop)
               /\ errors' = errors
               /\ queries' = queries
               /\ i' = i + 1 /\ pc' = "resolve"]_vars
    /\ [][(/\ pc = "resolve" /\ i > Len(commands)
           /\ InList(Last(commands), nav_commands))
            => /\ pc' = "send"
               /\ commands' = processed_commands
               /\ Last(commands') = s_stop]_vars
    /\ [](pc = "send" => ENABLED SendToUnity)
    /\ [](response.status = "not_found" => ~InList(Last(commands), nav_commands))

\* ["navigate_to_previous", "navigate_to_object"]: nothing is found for the
\* first command, which gives one error; the second has no argument, and
\* ["stop"] is dispatched
C28_Witness ==
    /\ pc = "done"
    /\ completion.items = << JStr(s_navigate_to_previous), JStr(s_navigate_to_object) >>
    /\ Len(errors) = 1
    /\ unityCalls = << << s_stop >> >>

C30_AudioHandlerDoesWhatTextHandlerDoes ==
    /\ [][(path = "audio" /\ pc = "context") => FetchContextOf("text")]_vars
    /\ [][(path = "audio" /\ pc = "send")
            => /\ unityCalls' = Append(unityCalls, commands)
               /\ Outcome(response') =
                    Outcome(text_result(agentAcked' # agentAcked, commands))]_vars
    /\ [][(path = "audio" /\ pc = "resolve" /\ pc' = "done" /\ i > Len(commands))
            => /\ response' = NotFoundResponse(errors[1])
               /\ unityCalls' = <<>>]_vars
====
